---- MODULE Spec2Model ----
\* Verification model of scriptutil's RunningCommand (src/scriptutil/_shell.py):
\* a child process writing to two OS pipes, and the consumer-side multiplex
\* loop (_read) with every consuming operation built on it.
EXTENDS Integers, Sequences, FiniteSets

\* ---------------------------------------------------------------- bounds
MaxWrites == 2          \* write() calls the child makes before it exits
PipeCap == 258          \* capacity of one OS pipe, in bytes
MaxLen == 3             \* length of the texts the functions are applied to
MaxList == 2            \* length of a list-valued option

\* ------------------------------------------------------ program constants
ChunkSize == 255
IGNORED_ERROR_CODES == {-15, -2}
SIGTERM == 15

Streams == {"stdout", "stderr"}

\* Bytes the child may write in one write() call: "7\n" to either stream
\* and, to stdout and as its first write, one line of 257 bytes
\* ("x" * 254 + "\xc3\xa9" + "\n") that is longer than one read chunk.
ShortBlob == <<55, 10>>
LongBlob == [i \in 1..257 |-> IF i <= 254 THEN 120 ELSE IF i = 255 THEN 195 ELSE IF i = 256 THEN 169 ELSE 10]
Blobs == [stdout |-> {ShortBlob, LongBlob}, stderr |-> {ShortBlob}]
ExitCodes == {0, 2, -2}
Names == {"/bin/ls -l"}

\* --------------------------------------------------------------- helpers
Min(a, b) == IF a < b THEN a ELSE b
Take(s, n) == SubSeq(s, 1, Min(n, Len(s)))
Drop(s, n) == SubSeq(s, Min(n, Len(s)) + 1, Len(s))

\* bytes.decode() for UTF-8 restricted to one- and two-byte sequences: a
\* byte below 128 is a character, a lead byte (194..223) must be followed by
\* a continuation byte (128..191), any other byte is invalid.  ok = FALSE
\* stands for UnicodeDecodeError.
IsLead(x) == x >= 194 /\ x <= 223
IsCont(x) == x >= 128 /\ x <= 191
Indices(b) == [i \in 1..Len(b) |-> i]
Decode(b) ==
  LET valid(i) == \/ b[i] < 128
                  \/ IsLead(b[i]) /\ i < Len(b) /\ IsCont(b[i + 1])
                  \/ IsCont(b[i]) /\ i > 1 /\ IsLead(b[i - 1])
      start(i) == ~IsCont(b[i])
      starts == SelectSeq(Indices(b), start)
      point(i) == IF b[i] < 128 THEN b[i] ELSE (b[i] - 192) * 64 + (b[i + 1] - 128)
  IN IF \A i \in 1..Len(b) : valid(i)
     THEN [ok |-> TRUE, text |-> [k \in 1..Len(starts) |-> point(starts[k])]]
     ELSE [ok |-> FALSE, text |-> <<>>]

\* bytes.splitlines() over data whose only line boundary is "\n" (10): the
\* terminators are dropped and a trailing terminator adds no empty line.
SplitLines(b) ==
  LET nl(i) == b[i] = 10
      ends == SelectSeq(Indices(b), nl)
      n == Len(ends) + (IF Len(b) > 0 /\ b[Len(b)] # 10 THEN 1 ELSE 0)
      first(k) == IF k = 1 THEN 1 ELSE ends[k - 1] + 1
      last(k) == IF k <= Len(ends) THEN ends[k] - 1 ELSE Len(b)
  IN [k \in 1..n |-> SubSeq(b, first(k), last(k))]

\* str.replace("\n", " ")
Flatten(t) == [i \in 1..Len(t) |-> IF t[i] = 10 THEN 32 ELSE t[i]]

\* ----------------------------------------------------------------- state
VARIABLES
  cstate,      \* child: "run" or "exited"
  exitStatus,  \* child: the status the kernel holds once it exited
  wopen,       \* child: write end of each pipe still open
  pendS,       \* child: stream of the write() in progress
  pend,        \* child: bytes of that write() not yet in the pipe
  nwrites,     \* child: write() calls made
  pipe,        \* bytes in each OS pipe, written and not yet read
  written,     \* every byte the child wrote to each stream
  _name,       \* RunningCommand._name
  _closed,     \* RunningCommand._closed
  fclosed,     \* _stdout.closed, _stderr.closed
  _output,     \* RunningCommand._output
  _error,      \* RunningCommand._error
  returncode,  \* Popen.returncode: <<>> is None, <<c>> is c
  pc,          \* the call in progress on the instance
  it,          \* the generator made by __iter__
  yielded,     \* items that generator has yielded
  exhausted,   \* <<items>> of the latest iteration of the open instance that ran to its end
  res,         \* outcome of the latest call
  alive,       \* the instance has not been discarded
  fn,          \* function applied to arg: "" before the call
  arg,         \* its argument
  ret,         \* what it returned
  lpc,         \* Command.__call__: "loaded" (not called yet), "write", "returned", "raised"
  cwd,         \* the caller's current directory, os.getcwd()
  _cwd_default,\* the default value of the parameter _cwd
  call,        \* the arguments of the call
  process,     \* the Popen: argv, directory and state of the child
  inleft,      \* bytes of _input not yet written to the child's stdin
  inpipe       \* bytes in the child's stdin pipe

cvars == <<cstate, exitStatus, wopen, pendS, pend, nwrites, pipe, written>>
rvars == <<_name, _closed, fclosed, _output, _error, returncode, pc, it, yielded, exhausted, res, alive>>
vars == <<cstate, exitStatus, wopen, pendS, pend, nwrites, pipe, written,
          _name, _closed, fclosed, _output, _error, returncode, pc, it, yielded, exhausted, res, alive,
          fn, arg, ret, lpc, cwd, _cwd_default, call, process, inleft, inpipe>>
fvars == <<fn, arg, ret>>
lvars == <<lpc, cwd, _cwd_default, call, process, inleft, inpipe>>
xvars == <<fn, arg, ret, lpc, cwd, _cwd_default, call, process, inleft, inpipe>>

NoExc == [type |-> "", error |-> <<>>, short |-> <<>>, text |-> ""]
Idle == [op |-> "idle", phase |-> "", open0 |-> FALSE, val |-> <<>>, out |-> <<>>, err |-> <<>>, exc |-> NoExc]
NoRes == [op |-> "", open0 |-> FALSE, kind |-> "none", exc |-> NoExc, val |-> <<>>, ok |-> FALSE, out |-> <<>>, err |-> <<>>,
          parsed |-> [kind |-> "", items |-> <<>>]]
NoIter == [st |-> "none", open0 |-> FALSE, lines |-> <<>>, idx |-> 0]
BothStreams(v) == [s \in Streams |-> v]

\* The state right after Command.__call__ has made the RunningCommand.
Launched ==
  /\ cstate = "run" /\ exitStatus = 0 /\ wopen = BothStreams(TRUE)
  /\ pendS = "stdout" /\ pend = <<>> /\ nwrites = 0
  /\ pipe = BothStreams(<<>>) /\ written = BothStreams(<<>>)
  /\ _name \in Names
  /\ _closed = FALSE /\ fclosed = BothStreams(FALSE)
  /\ _output = <<>> /\ _error = <<>> /\ returncode = <<>>
  /\ pc = Idle /\ it = NoIter /\ yielded = <<>> /\ exhausted = <<>>
  /\ res = NoRes /\ alive = TRUE

NoRet == [exc |-> NoExc, parsed |-> [kind |-> "", items |-> <<>>], command |-> <<>>]
NoCall == fn = "" /\ arg = <<>> /\ ret = NoRet

NoArgs == [kwargs |-> <<>>, args |-> <<>>, _input |-> [kind |-> "", n |-> 0], _cwd |-> <<>>]
NoProcess == [argv |-> <<>>, cwd |-> "", state |-> ""]
\* Command.__call__ has returned the RunningCommand.
ReturnedFrom(c) ==
  /\ lpc = "returned" /\ cwd = "/" /\ _cwd_default = "/" /\ call = c
  /\ process = [NoProcess EXCEPT !.state = "run"] /\ inleft = 0 /\ inpipe = 0
Returned == ReturnedFrom(NoArgs)

Init == Launched /\ NoCall /\ Returned

\* ------------------------------------------------------------- the child
ChildWrite(s, b) ==
  /\ cstate = "run" /\ wopen[s] /\ pend = <<>> /\ nwrites < MaxWrites
  /\ b = LongBlob => nwrites = 0
  /\ pendS' = s /\ pend' = b /\ nwrites' = nwrites + 1
  /\ UNCHANGED <<cstate, exitStatus, wopen, pipe, written>>
  /\ UNCHANGED rvars
  /\ UNCHANGED xvars

\* The kernel moves what fits into the pipe; a write() to a full pipe blocks.
ChildFlush ==
  /\ cstate = "run" /\ pend # <<>> /\ Len(pipe[pendS]) < PipeCap
  /\ LET k == Min(Len(pend), PipeCap - Len(pipe[pendS])) IN
       /\ pipe' = [pipe EXCEPT ![pendS] = @ \o Take(pend, k)]
       /\ written' = [written EXCEPT ![pendS] = @ \o Take(pend, k)]
       /\ pend' = Drop(pend, k)
  /\ UNCHANGED <<cstate, exitStatus, wopen, pendS, nwrites>>
  /\ UNCHANGED rvars
  /\ UNCHANGED xvars

ChildClose(s) ==
  /\ cstate = "run" /\ wopen[s] /\ pend = <<>>
  /\ wopen' = [wopen EXCEPT ![s] = FALSE]
  /\ UNCHANGED <<cstate, exitStatus, pendS, pend, nwrites, pipe, written>>
  /\ UNCHANGED rvars
  /\ UNCHANGED xvars

ChildExit(c) ==
  /\ cstate = "run" /\ pend = <<>>
  /\ cstate' = "exited" /\ exitStatus' = c /\ wopen' = BothStreams(FALSE)
  /\ UNCHANGED <<pendS, pend, nwrites, pipe, written>>
  /\ UNCHANGED rvars
  /\ UNCHANGED xvars


\* ------------------------------------------------------------ parse()
\* Text is a sequence of code points.  The model's text is made of digits,
\* "+", "-", ".", the space, the newline and characters that occur in no
\* number, so int() accepts a sign and digits and float() a sign and digits
\* around one ".".
AllDigits(t) == \A i \in 1..Len(t) : t[i] >= 48 /\ t[i] <= 57
Unsigned(tok) == IF Len(tok) > 0 /\ tok[1] \in {43, 45} THEN Tail(tok) ELSE tok
Sign(tok) == IF Len(tok) > 0 /\ tok[1] = 45 THEN -1 ELSE 1

RECURSIVE Num(_)
Num(d) == IF d = <<>> THEN 0 ELSE Num(SubSeq(d, 1, Len(d) - 1)) * 10 + (d[Len(d)] - 48)

RECURSIVE Normal(_, _)
Normal(m, e) == IF m = 0 THEN [m |-> 0, e |-> 0]
                ELSE IF e < 0 /\ m % 10 = 0 THEN Normal(m \div 10, e + 1)
                ELSE [m |-> m, e |-> e]

NoValue == [t |-> "", n |-> 0, e |-> 0, s |-> <<>>]

\* The value of one token: int(token), else float(token), else the token.
TokenValue(token) ==
  LET u == Unsigned(token)
      isdot(i) == u[i] = 46
      dots == SelectSeq(Indices(u), isdot)
      whole == IF Len(dots) = 1 THEN SubSeq(u, 1, dots[1] - 1) ELSE u
      frac == IF Len(dots) = 1 THEN SubSeq(u, dots[1] + 1, Len(u)) ELSE <<>>
  IN IF Len(u) > 0 /\ AllDigits(u)
     THEN [NoValue EXCEPT !.t = "int", !.n = Sign(token) * Num(u)]
     ELSE IF Len(dots) = 1 /\ Len(u) > 1 /\ AllDigits(whole) /\ AllDigits(frac)
     THEN LET f == Normal(Num(whole \o frac), -Len(frac)) IN
          [NoValue EXCEPT !.t = "float", !.n = Sign(token) * f.m, !.e = f.e]
     ELSE [NoValue EXCEPT !.t = "str", !.s = token]

\* str.split(): the maximal runs of non-space characters of a line.
Tokens(line) ==
  LET first(i) == line[i] # 32 /\ (i = 1 \/ line[i - 1] = 32)
      last(i) == line[i] # 32 /\ (i = Len(line) \/ line[i + 1] = 32)
      starts == SelectSeq(Indices(line), first)
      ends == SelectSeq(Indices(line), last)
  IN [k \in 1..Len(starts) |-> SubSeq(line, starts[k], ends[k])]

\* The body of parse() after output = str(self): a line with tokens gives a
\* scalar (row = FALSE) or a row of scalars; no value gives None ("empty"),
\* one value gives that value ("one"), more give the list of them ("list").
ParseLine(line) ==
  LET tokens == Tokens(line) IN
  [row |-> Len(tokens) > 1, items |-> [k \in 1..Len(tokens) |-> TokenValue(tokens[k])]]
parse_textNoUnwrap(output) ==
  LET lines == SplitLines(output)
      current == [k \in 1..Len(lines) |-> ParseLine(lines[k])]
      nonempty(c) == Len(c.items) > 0
      result == SelectSeq(current, nonempty)
  IN [kind |-> IF Len(result) = 0 THEN "empty" ELSE "list", items |-> result]

parse_text(output) ==
  LET lines == SplitLines(output)
      current == [k \in 1..Len(lines) |-> ParseLine(lines[k])]
      nonempty(c) == Len(c.items) > 0
      result == SelectSeq(current, nonempty)
  IN [kind |-> IF Len(result) = 0 THEN "empty" ELSE IF Len(result) = 1 THEN "one" ELSE "list",
      items |-> result]

\* ------------------------------------------------- exceptions and results
Error(t) == [NoExc EXCEPT !.type = t]

\* ShellCommandException.__init__: error is the decoded stderr, the message
\* is error with each newline replaced by a space.
ShellCommandException(stderr) ==
  LET d == Decode(stderr) IN
  IF d.ok THEN [type |-> "ShellCommandException", error |-> d.text, short |-> Flatten(d.text), text |-> ""]
  ELSE Error("UnicodeDecodeError")

CommandIgnoredExceptionNoName(command_name) ==
  [NoExc EXCEPT !.type = "CommandIgnoredException", !.text = "Command disposed without being waited"]

CommandIgnoredException(command_name) ==
  [NoExc EXCEPT !.type = "CommandIgnoredException",
                !.text = "Command " \o command_name \o " disposed without being waited"]

FailingNoIgnore(rc) == rc # 0

\* The returncode test of _check_exception.
Failing(rc) == rc # 0 /\ rc \notin IGNORED_ERROR_CODES

_closeStdoutOnly(c, f) == IF ~c THEN [c |-> TRUE, f |-> [f EXCEPT !["stdout"] = TRUE]] ELSE [c |-> c, f |-> f]
_closeFlagOnly(c, f) == [c |-> TRUE, f |-> f]

\* _close, as a function of (_closed, the files' closed flags).
_close(c, f) == IF ~c THEN [c |-> TRUE, f |-> BothStreams(TRUE)] ELSE [c |-> c, f |-> f]

\* What the call p returns or raises once its _check_exception (or _check)
\* is through: sce is what _check_exception raised, rc the exit status.
Outcome(p, sce, rc) ==
  LET base == [NoRes EXCEPT !.op = p.op, !.open0 = p.open0, !.out = p.out, !.err = p.err]
      raise(e) == [base EXCEPT !.kind = "raise", !.exc = e]
  IN IF sce.type # "" THEN raise(sce)
     ELSE IF p.exc.type # "" THEN raise(p.exc)
     ELSE CASE p.op = "bool" -> [base EXCEPT !.kind = "return", !.ok = (rc = 0)]
            [] p.op = "del" -> raise(CommandIgnoredException(_name))
            [] p.op = "next" -> [base EXCEPT !.kind = "stop"]
            [] p.op = "bytes" -> [base EXCEPT !.kind = "return", !.val = p.val]
            [] p.op = "str" -> LET d == Decode(p.val) IN
                               IF d.ok THEN [base EXCEPT !.kind = "return", !.val = d.text]
                               ELSE raise(Error("UnicodeDecodeError"))
            [] p.op = "parse" -> LET d == Decode(p.val) IN
                                 IF d.ok THEN [base EXCEPT !.kind = "return", !.parsed = parse_text(d.text)]
                                 ELSE raise(Error("UnicodeDecodeError"))
            [] OTHER -> [base EXCEPT !.kind = "return"]

\* The end of call p: the finally clause closes, the call returns or raises.
Finish(p, sce, rc) ==
  /\ _closed' = _close(_closed, fclosed).c
  /\ fclosed' = _close(_closed, fclosed).f
  /\ res' = Outcome(p, sce, rc)
  /\ it' = IF p.op = "next" THEN [it EXCEPT !.st = "done"] ELSE it
  /\ exhausted' = IF p.op = "next" /\ p.open0 /\ Outcome(p, sce, rc).kind = "stop"
                   THEN <<yielded>> ELSE exhausted
  /\ alive' = (p.op # "del")
  /\ pc' = Idle

Goto(p) ==
  /\ pc' = p
  /\ UNCHANGED <<_closed, fclosed, res, it, alive, exhausted>>

\* Call p enters _check_exception.  On a closed instance whose status is
\* known nothing in it blocks (_wait does nothing, Popen.wait returns the
\* status it has), so it runs to its end; otherwise the call goes on in
\* _wait ("cw") or Popen.wait ("cp").
_check_exception(p) ==
  IF _closed /\ returncode # <<>>
  THEN Finish(p, IF Failing(returncode[1]) THEN ShellCommandException(_error) ELSE NoExc,
              returncode[1])
  ELSE Goto([p EXCEPT !.phase = IF _closed THEN "cp" ELSE "cw"])

\* Call p enters _check.
_check(p) ==
  IF _closed /\ returncode # <<>>
  THEN Finish(p, NoExc, returncode[1])
  ELSE Goto([p EXCEPT !.phase = IF _closed THEN "bp" ELSE "bw"])

\* ------------------------------------------------ one round of _read
Ready(s) == pipe[s] # <<>> \/ ~wopen[s]
availableAll == Streams

\* The streams select() reported: those a read is issued on.
available == {s \in Streams : Ready(s)}
Chunk(s) == IF s \in available THEN Take(pipe[s], ChunkSize) ELSE <<>>
LoopEnds == \A s \in Streams : Len(Chunk(s)) = 0

ReadChunksPrepending ==
  /\ pipe' = [s \in Streams |-> Drop(pipe[s], Len(Chunk(s)))]
  /\ _output' = Chunk("stdout") \o _output
  /\ _error' = Chunk("stderr") \o _error

\* The reads of one round and the array.extend(res) of each result.
ReadChunks ==
  /\ pipe' = [s \in Streams |-> Drop(pipe[s], Len(Chunk(s)))]
  /\ _output' = _output \o Chunk("stdout")
  /\ _error' = _error \o Chunk("stderr")

Break == UNCHANGED <<pipe, _output, _error>>

\* A round of the loop of _wait, in _read_output ("ro"), _check ("bw"),
\* _check_exception ("cw") or _read_error ("ce").  select() on a closed file
\* raises ValueError, which leaves through the finally clauses.
WaitRound ==
  /\ pc.phase \in {"ro", "bw", "cw", "ce"}
  /\ IF \E s \in Streams : fclosed[s]
     THEN /\ UNCHANGED <<pipe, _output, _error>>
          /\ IF pc.phase = "ro" THEN _check_exception([pc EXCEPT !.exc = Error("ValueError")])
             ELSE Finish(pc, Error("ValueError"), 0)
     ELSE /\ \E s \in Streams : Ready(s)
          /\ IF LoopEnds
             THEN /\ Break
                  /\ CASE pc.phase = "ro" -> _check_exception([pc EXCEPT !.val = _output])
                       [] pc.phase = "bw" -> Goto([pc EXCEPT !.phase = "bp"])
                       [] pc.phase = "cw" -> Goto([pc EXCEPT !.phase = "cp"])
                       [] pc.phase = "ce" -> Finish(pc, ShellCommandException(_error), returncode[1])
             ELSE ReadChunks /\ Goto(pc)
  /\ UNCHANGED <<cstate, exitStatus, wopen, pendS, pend, nwrites, written>>
  /\ UNCHANGED <<_name, returncode, yielded>>
  /\ UNCHANGED xvars

\* Popen.wait(): blocks until the child has exited, then keeps its status.
\* A failing status sends _check_exception into _read_error.
ProcWait ==
  /\ pc.phase \in {"cp", "bp"}
  /\ returncode # <<>> \/ cstate = "exited"
  /\ LET rc == IF returncode # <<>> THEN returncode[1] ELSE exitStatus IN
       /\ returncode' = <<rc>>
       /\ IF pc.phase = "bp" THEN Finish(pc, NoExc, rc)
          ELSE IF Failing(rc)
               THEN IF _closed THEN Finish(pc, ShellCommandException(_error), rc)
                    ELSE Goto([pc EXCEPT !.phase = "ce"])
          ELSE Finish(pc, NoExc, rc)
  /\ UNCHANGED cvars
  /\ UNCHANGED <<_name, _output, _error, yielded>>
  /\ UNCHANGED xvars

\* ------------------------------------------------------------ the calls
Call(op) == [Idle EXCEPT !.op = op, !.open0 = ~_closed]
CanCall == alive /\ pc = Idle

\* wait(): _check_exception.
wait ==
  /\ CanCall
  /\ _check_exception(Call("wait"))
  /\ UNCHANGED cvars
  /\ UNCHANGED <<_name, _output, _error, returncode, yielded>>
  /\ UNCHANGED xvars

CoerceConsuming(op) ==
  /\ CanCall
  /\ IF _closed THEN _check_exception([Call(op) EXCEPT !.val = _output]) /\ _output' = <<>>
     ELSE Goto([Call(op) EXCEPT !.phase = "ro"]) /\ UNCHANGED _output
  /\ UNCHANGED cvars
  /\ UNCHANGED <<_name, _error, returncode, yielded>>
  /\ UNCHANGED xvars

\* __bytes__ ("bytes"), __str__ ("str") and parse(), which starts with
\* str(self): _read_output, then _check_exception.
Coerce(op) ==
  /\ CanCall
  /\ IF _closed THEN _check_exception([Call(op) EXCEPT !.val = _output])
     ELSE Goto([Call(op) EXCEPT !.phase = "ro"])
  /\ UNCHANGED cvars
  /\ UNCHANGED <<_name, _output, _error, returncode, yielded>>
  /\ UNCHANGED xvars

\* __bool__: _check.
__bool__ ==
  /\ CanCall
  /\ _check(Call("bool"))
  /\ UNCHANGED cvars
  /\ UNCHANGED <<_name, _output, _error, returncode, yielded>>
  /\ UNCHANGED xvars

\* __exit__: the arguments (the error the scope is left with) are not used.
__exit__(exc_type) ==
  /\ CanCall
  /\ IF _closed
     THEN /\ res' = [NoRes EXCEPT !.op = "exit", !.kind = "return"]
          /\ UNCHANGED <<pc, _closed, fclosed, it, alive, exhausted>>
     ELSE _check_exception(Call("exit"))
  /\ UNCHANGED cvars
  /\ UNCHANGED <<_name, _output, _error, returncode, yielded>>
  /\ UNCHANGED xvars

\* __del__: the instance is discarded; no generator still refers to it.
__del__ ==
  /\ CanCall /\ it.st \in {"none", "done"}
  /\ IF _closed
     THEN /\ res' = [NoRes EXCEPT !.op = "del", !.kind = "return"]
          /\ alive' = FALSE
          /\ UNCHANGED <<pc, _closed, fclosed, it, exhausted>>
     ELSE _check_exception(Call("del"))
  /\ UNCHANGED cvars
  /\ UNCHANGED <<_name, _output, _error, returncode, yielded>>
  /\ UNCHANGED xvars

terminateClosing ==
  /\ alive
  /\ IF returncode # <<>> THEN UNCHANGED <<cstate, exitStatus, wopen, pend, returncode>>
     ELSE IF cstate = "exited"
          THEN returncode' = <<exitStatus>> /\ UNCHANGED <<cstate, exitStatus, wopen, pend>>
     ELSE /\ cstate' = "exited" /\ exitStatus' = -SIGTERM
          /\ wopen' = BothStreams(FALSE) /\ pend' = <<>>
          /\ UNCHANGED returncode
  /\ _closed' = TRUE /\ fclosed' = BothStreams(TRUE)
  /\ UNCHANGED <<pendS, nwrites, pipe, written>>
  /\ UNCHANGED <<_name, _output, _error, pc, it, yielded, exhausted, res, alive>>
  /\ UNCHANGED xvars

\* terminate(): Popen.send_signal polls first and signals a child only if
\* its status has not been collected; SIGTERM ends a running child.
terminate ==
  /\ alive
  /\ IF returncode # <<>> THEN UNCHANGED <<cstate, exitStatus, wopen, pend, returncode>>
     ELSE IF cstate = "exited"
          THEN returncode' = <<exitStatus>> /\ UNCHANGED <<cstate, exitStatus, wopen, pend>>
     ELSE /\ cstate' = "exited" /\ exitStatus' = -SIGTERM
          /\ wopen' = BothStreams(FALSE) /\ pend' = <<>>
          /\ UNCHANGED returncode
  /\ UNCHANGED <<pendS, nwrites, pipe, written>>
  /\ UNCHANGED <<_name, _closed, fclosed, _output, _error, pc, it, yielded, exhausted, res, alive>>
  /\ UNCHANGED xvars

\* ------------------------------------------------------------ __iter__
Yield(text) ==
  /\ res' = [NoRes EXCEPT !.op = "next", !.open0 = it.open0, !.kind = "yield", !.val = text]
  /\ yielded' = Append(yielded, text)
  /\ pc' = Idle
  /\ UNCHANGED <<_closed, fclosed, alive, exhausted>>

\* __iter__(): makes the generator; its body starts at the first next().
__iter__ ==
  /\ CanCall /\ it.st \in {"none", "done"}
  /\ it' = [NoIter EXCEPT !.st = "fresh"]
  /\ yielded' = <<>>
  /\ UNCHANGED cvars
  /\ UNCHANGED <<_name, _closed, fclosed, _output, _error, returncode, pc, exhausted, res, alive>>
  /\ UNCHANGED xvars

NextCall == [Idle EXCEPT !.op = "next", !.open0 = it.open0]

\* The closed branch of __iter__ at line i of lines: yield it, or leave the
\* loop for the finally clause.
Replay(lines, i) ==
  IF i <= Len(lines) /\ Decode(lines[i]).ok
  THEN /\ it' = [it EXCEPT !.st = "replay", !.lines = lines, !.idx = i + 1]
       /\ Yield(Decode(lines[i]).text)
  ELSE /\ _check_exception([NextCall EXCEPT !.exc = IF i <= Len(lines) THEN Error("UnicodeDecodeError")
                                                    ELSE NoExc])
       /\ UNCHANGED yielded

\* next() on the generator: start it, or resume it where it was suspended.
IterNext ==
  /\ CanCall /\ it.st \in {"fresh", "read", "replay"}
  /\ CASE it.st = "fresh" /\ ~_closed ->
            /\ it' = [it EXCEPT !.st = "read", !.open0 = TRUE]
            /\ pc' = [NextCall EXCEPT !.phase = "loop", !.open0 = TRUE]
            /\ UNCHANGED <<_closed, fclosed, res, alive, yielded, exhausted>>
       [] it.st = "fresh" /\ _closed -> Replay(SplitLines(_output), 1)
       [] it.st = "read" ->
            /\ pc' = [NextCall EXCEPT !.phase = "loop"]
            /\ UNCHANGED <<_closed, fclosed, res, alive, yielded, it, exhausted>>
       [] it.st = "replay" -> Replay(it.lines, it.idx)
  /\ UNCHANGED cvars
  /\ UNCHANGED <<_name, _output, _error, returncode>>
  /\ UNCHANGED xvars

\* A round of _read driven by the for loop of __iter__.  select() on a file
\* that was closed meanwhile raises ValueError.
IterRound ==
  /\ pc.op = "next" /\ pc.phase = "loop"
  /\ IF \E s \in Streams : fclosed[s]
     THEN /\ _check_exception([pc EXCEPT !.exc = Error("ValueError")])
          /\ UNCHANGED <<pipe, _output, _error, yielded>>
     ELSE /\ \E s \in Streams : Ready(s)
          /\ IF LoopEnds
             THEN Break /\ _check_exception(pc) /\ UNCHANGED yielded
             ELSE /\ ReadChunks
                  /\ IF Len(Chunk("stdout")) > 0
                     THEN LET d == Decode(Chunk("stdout")) IN
                          IF d.ok THEN Yield(d.text) /\ UNCHANGED it
                          ELSE _check_exception([pc EXCEPT !.exc = Error("UnicodeDecodeError")])
                               /\ UNCHANGED yielded
                     ELSE Goto(pc) /\ UNCHANGED yielded
  /\ UNCHANGED <<cstate, exitStatus, wopen, pendS, pend, nwrites, written>>
  /\ UNCHANGED <<_name, returncode>>
  /\ UNCHANGED xvars

\* ------------------------------------------------------------- print()
\* What printing the lines one by one writes before one fails to decode.
RECURSIVE print_lines(_, _, _)
print_lines(lines, i, acc) ==
  IF i > Len(lines) THEN [ok |-> TRUE, text |-> acc]
  ELSE LET d == Decode(lines[i]) IN
       IF d.ok THEN print_lines(lines, i + 1, acc \o d.text) ELSE [ok |-> FALSE, text |-> acc]

print ==
  /\ CanCall
  /\ IF _closed
     THEN LET p == print_lines(SplitLines(_output), 1, <<>>) IN
          _check_exception([Call("print") EXCEPT !.out = p.text,
                              !.exc = IF p.ok THEN NoExc ELSE Error("UnicodeDecodeError")])
     ELSE Goto([Call("print") EXCEPT !.phase = "loop"])
  /\ UNCHANGED cvars
  /\ UNCHANGED <<_name, _output, _error, returncode, yielded>>
  /\ UNCHANGED xvars

\* A round of _read driven by the for loop of print(): pc.out and pc.err are
\* what the call has written to sys.stdout and sys.stderr.
print_round ==
  /\ pc.op = "print" /\ pc.phase = "loop"
  /\ \E s \in Streams : Ready(s)
  /\ IF LoopEnds
     THEN Break /\ _check_exception(pc)
     ELSE /\ ReadChunks
          /\ LET o == Decode(Chunk("stdout"))
                 e == Decode(Chunk("stderr"))
             IN IF ~o.ok THEN _check_exception([pc EXCEPT !.exc = Error("UnicodeDecodeError")])
                ELSE IF ~e.ok THEN _check_exception([pc EXCEPT !.exc = Error("UnicodeDecodeError"),
                                                               !.out = @ \o o.text])
                ELSE Goto([pc EXCEPT !.out = @ \o o.text, !.err = @ \o e.text])
  /\ UNCHANGED <<cstate, exitStatus, wopen, pendS, pend, nwrites, written>>
  /\ UNCHANGED <<_name, returncode, yielded>>
  /\ UNCHANGED xvars

Next ==
  \/ \E s \in Streams : \E b \in Blobs[s] : ChildWrite(s, b)
  \/ ChildFlush
  \/ \E s \in Streams : ChildClose(s)
  \/ \E c \in ExitCodes : ChildExit(c)
  \/ WaitRound
  \/ ProcWait
  \/ wait
  \/ \E op \in {"bytes", "str", "parse"} : Coerce(op)
  \/ __bool__
  \/ \E e \in BOOLEAN : __exit__(e)
  \/ __del__
  \/ terminate
  \/ __iter__
  \/ IterNext
  \/ IterRound
  \/ print
  \/ print_round

Spec == Init /\ [][Next]_vars

\* ------------------------------------------- Command.__call__: the argv
\* A string is a sequence of one-character strings.  An option value or a
\* positional argument is a record: t is its type ("str", "int", "bool",
\* "none", "list"), s is str(value), items the elements of a list.
Scalar(t, str) == [t |-> t, s |-> str, items |-> <<>>]
None == Scalar("none", <<"N", "o", "n", "e">>)
True == Scalar("bool", <<"T", "r", "u", "e">>)
False == Scalar("bool", <<"F", "a", "l", "s", "e">>)
List(items) == [t |-> "list", s |-> <<>>, items |-> items]

shell_nameKeep(name) == name

\* shell_name: name.replace("_", "-")
shell_name(name) == [i \in 1..Len(name) |-> IF name[i] = "_" THEN "-" ELSE name[i]]

\* The element appended for one value of the option key (lines 233-242).
OptionElement(key0, value) ==
  LET key == shell_name(key0)
      prefix == IF Len(key) = 1 THEN <<"-">> ELSE <<"-", "-">>
      suffix == IF Len(key) = 1 THEN <<>> ELSE <<"=">>
  IN prefix \o key \o (IF value.t # "bool" THEN suffix \o value.s ELSE <<>>)

OptionElementsKeepNone(key, v) ==
  LET values == IF v.t = "list" THEN v.items ELSE <<v>>
  IN [i \in 1..Len(values) |-> OptionElement(key, values[i])]

\* The elements appended for the option key = v (lines 226-242).
OptionElements(key, v) ==
  LET values == IF v.t = "list" THEN v.items ELSE <<v>>
      given(value) == value.t # "none"
      kept == SelectSeq(values, given)
  IN [i \in 1..Len(kept) |-> OptionElement(key, kept[i])]

RECURSIVE Options(_)
Options(kwargs) ==
  IF kwargs = <<>> THEN <<>>
  ELSE OptionElements(kwargs[1].key, kwargs[1].v) \o Options(Tail(kwargs))

\* The elements appended for the positional arguments (lines 243-245).
Positional(args) ==
  LET given(a) == a.t # "none"
      kept == SelectSeq(args, given)
  IN [i \in 1..Len(kept) |-> kept[i].s]

\* The list command of __call__ (lines 224-245).
BuildCommand(command_name, kwargs, args) ==
  <<command_name>> \o Options(kwargs) \o Positional(args)

\* ------------------------------------------- Command.__call__: the launch
Dirs == {"/a", "/b"}
\* _input: bytes or str of n bytes once encoded, or a file object.
Inputs == {[kind |-> k, n |-> n] : k \in {"bytes", "str"}, n \in {0, 1, PipeCap + 1}}
            \cup {[kind |-> "file", n |-> 0]}
Tag == <<"t", "a", "g">>
LaunchKwargs == {<<>>, <<[key |-> Tag, v |-> Scalar("str", <<"a">>)]>>}
LaunchArgs == {<<>>, <<Scalar("str", <<"x">>)>>}
CommandName == <<"/", "b", "i", "n", "/", "l", "s">>

\* The module has been imported in directory d: the default of _cwd is
\* evaluated then (line 220).
LaunchInit ==
  /\ Launched /\ NoCall
  /\ lpc = "loaded" /\ cwd \in Dirs /\ _cwd_default = cwd /\ call = NoArgs
  /\ process = NoProcess /\ inleft = 0 /\ inpipe = 0

\* The caller changes directory before it calls the command.
chdir(d) ==
  /\ lpc = "loaded" /\ d # cwd
  /\ cwd' = d
  /\ UNCHANGED <<lpc, _cwd_default, call, process, inleft, inpipe>>
  /\ UNCHANGED fvars /\ UNCHANGED cvars /\ UNCHANGED rvars

\* __call__ up to Popen (lines 224-263); _cwd is <<>> when not given.
__call__(kwargs, args, _input, _cwd) ==
  /\ lpc = "loaded"
  /\ call' = [kwargs |-> kwargs, args |-> args, _input |-> _input, _cwd |-> _cwd]
  /\ process' = [argv |-> <<"stdbuf", "-oL">> \o BuildCommand(CommandName, kwargs, args),
                 cwd |-> IF _cwd = <<>> THEN _cwd_default ELSE _cwd[1],
                 state |-> "run"]
  /\ IF _input.kind \in {"bytes", "str"}
     THEN lpc' = "write" /\ inleft' = _input.n
     ELSE lpc' = "returned" /\ inleft' = 0
  /\ UNCHANGED <<cwd, _cwd_default, inpipe>>
  /\ UNCHANGED fvars /\ UNCHANGED cvars /\ UNCHANGED rvars

\* process.stdin.write(_input) and close (lines 264-268): the write blocks
\* while the pipe is full, fails with BrokenPipeError when the child has
\* exited, and the call returns once everything is written.
stdin_write ==
  /\ lpc = "write"
  /\ IF inleft = 0 THEN lpc' = "returned" /\ UNCHANGED <<inleft, inpipe>>
     ELSE IF process.state = "exited" THEN lpc' = "raised" /\ UNCHANGED <<inleft, inpipe>>
     ELSE /\ inpipe < PipeCap
          /\ LET k == Min(inleft, PipeCap - inpipe) IN inleft' = inleft - k /\ inpipe' = inpipe + k
          /\ UNCHANGED lpc
  /\ UNCHANGED <<cwd, _cwd_default, call, process>>
  /\ UNCHANGED fvars /\ UNCHANGED cvars /\ UNCHANGED rvars

\* The child reads what its stdin holds.
child_read ==
  /\ process.state = "run" /\ inpipe > 0
  /\ inpipe' = 0
  /\ UNCHANGED <<lpc, cwd, _cwd_default, call, process, inleft>>
  /\ UNCHANGED fvars /\ UNCHANGED cvars /\ UNCHANGED rvars

\* The child exits; it may not have read its stdin.
child_exit ==
  /\ process.state = "run"
  /\ process' = [process EXCEPT !.state = "exited"]
  /\ UNCHANGED <<lpc, cwd, _cwd_default, call, inleft, inpipe>>
  /\ UNCHANGED fvars /\ UNCHANGED cvars /\ UNCHANGED rvars

LaunchNext ==
  \/ \E d \in Dirs : chdir(d)
  \/ \E kwargs \in LaunchKwargs, args \in LaunchArgs, _input \in Inputs, _cwd \in {<<>>, <<"/c">>} :
       __call__(kwargs, args, _input, _cwd)
  \/ stdin_write
  \/ child_read
  \/ child_exit

LaunchSpec == LaunchInit /\ [][LaunchNext]_vars

\* ------------------------------------------- the functions, on given texts
\* "\n", " ", "-", ".", "1", "a"
Alphabet == {10, 32, 45, 46, 49, 97}
\* "boom\n" and "1 2\n3\nfoo bar\n"
Boom == <<98, 111, 111, 109, 10>>
Rows == <<49, 32, 50, 10, 51, 10, 102, 111, 111, 32, 98, 97, 114, 10>>
Texts == UNION {[1..n -> Alphabet] : n \in 0..MaxLen} \cup {Boom, Rows}

\* Keyword arguments: at most two options with different keys among v, tag
\* and no_x, each a scalar ("a", 5, True, False, None) or a list of at most
\* MaxList elements among "a", "b", None and False.
Keys == {<<"v">>, Tag, <<"n", "o", "_", "x">>}
Scalars == {Scalar("str", <<"a">>), Scalar("int", <<"5">>), True, False, None}
ListItems == {Scalar("str", <<"a">>), Scalar("str", <<"b">>), None, False}
OptionValues == Scalars \cup {List(l) : l \in UNION {[1..n -> ListItems] : n \in 0..MaxList}}
KeywordOptions == {[key |-> k, v |-> v] : k \in Keys, v \in OptionValues}
Kwargs == {<<>>} \cup {<<o>> : o \in KeywordOptions}
            \cup {op \in KeywordOptions \X KeywordOptions : op[1].key # op[2].key}
Calls == {[NoArgs EXCEPT !.kwargs = k, !.args = a] : k \in Kwargs, a \in {<<>>, <<None, Scalar("str", <<"x">>)>>}}

\* A text to apply parse() or ShellCommandException to, or the arguments
\* of a call to build the argv of.
FnInit ==
  /\ Launched /\ fn = "" /\ ret = NoRet
  /\ \/ arg \in Texts /\ Returned
     \/ arg = <<>> /\ \E c \in Calls : ReturnedFrom(c)

\* ShellCommandException(arg): arg is the stderr of a failed command.
ApplyShellCommandException ==
  /\ fn = "" /\ call = NoArgs /\ fn' = "ShellCommandException"
  /\ ret' = [NoRet EXCEPT !.exc = ShellCommandException(arg)]
  /\ UNCHANGED arg /\ UNCHANGED cvars /\ UNCHANGED rvars /\ UNCHANGED lvars

\* parse() of an instance whose str() is arg.
ApplyParse ==
  /\ fn = "" /\ call = NoArgs /\ fn' = "parse"
  /\ ret' = [NoRet EXCEPT !.parsed = parse_text(arg)]
  /\ UNCHANGED arg /\ UNCHANGED cvars /\ UNCHANGED rvars /\ UNCHANGED lvars

\* The argv that __call__ builds from the arguments call.
ApplyBuildCommand ==
  /\ fn = "" /\ arg = <<>> /\ fn' = "command"
  /\ ret' = [NoRet EXCEPT !.command = BuildCommand(CommandName, call.kwargs, call.args)]
  /\ UNCHANGED arg /\ UNCHANGED cvars /\ UNCHANGED rvars /\ UNCHANGED lvars

FnNext ==
  \/ ApplyShellCommandException
  \/ ApplyParse
  \/ ApplyBuildCommand

FnSpec == FnInit /\ [][FnNext]_vars

\* ================================================================ claims
ClaimFailing(rc) == rc # 0 /\ rc \notin {-15, -2}
Done(ops) == res.op \in ops /\ res.kind \in {"return", "raise", "stop"}
Raised(type) == res.kind = "raise" /\ res.exc.type = type

\* C1: a _read loop stops only in a round where both the stdout pipe and the
\* stderr pipe returned a zero-length read (end-of-stream), never in a round
\* where one of them was merely not ready.  A step leaves a loop when the
\* call, in a loop phase with both files open, moves on and reads nothing.
C1_StopsOnlyAtBothEof ==
  [][(/\ pc.phase \in {"ro", "bw", "cw", "ce", "loop"}
      /\ \A s \in Streams : ~fclosed[s]
      /\ pc' # pc /\ pipe' = pipe /\ _output' = _output /\ _error' = _error)
       => \A s \in Streams : pipe[s] = <<>> /\ ~wopen[s]]_vars

\* C2: the consumer never blocks in Popen.wait() for the exit of a child that
\* is itself blocked writing to a full pipe.
C2_NoWaitOnBlockedChild ==
  ~(/\ pc.phase \in {"cp", "bp"} /\ returncode = <<>>
    /\ cstate = "run" /\ pend # <<>> /\ Len(pipe[pendS]) = PipeCap)

C4_BoolDrainsClosesReturns ==
  (res.op = "bool" /\ res.open0 /\ res.kind # "none")
    => /\ res.kind = "return" /\ res.ok = (returncode[1] = 0)
       /\ _closed /\ _output = written["stdout"]

C6_ClosedAfterCompletion ==
  Done({"wait", "bytes", "str", "bool", "next", "exit", "parse"})
    => /\ _closed /\ \A s \in Streams : fclosed[s]
       /\ returncode # <<>>
C6_Witness == res.op = "exit" /\ res.open0 /\ Raised("ShellCommandException") /\ _closed

\* C7: once the instance is closed, no step changes the stdout buffer, the
\* stderr buffer or the exit status, and the instance stays closed.
C7_ClosedIsFinal ==
  [][_closed => /\ _closed' /\ _output' = _output /\ _error' = _error
                /\ returncode' = returncode]_vars
C7_Witness == _closed /\ res.op = "next" /\ res.open0 /\ Raised("ValueError")

\* C8: a bytes() (or str()) of a closed instance that follows a bytes() (or
\* str()) of the closed instance has the same outcome, the same bytes or the
\* same ShellCommandException, and no step of a closed instance takes bytes
\* out of the pipes.
C8_ClosedCoercionIdempotent ==
  [][/\ (res.op \in {"bytes", "str"} /\ ~res.open0 /\ res'.op = res.op) => res' = res
     /\ _closed => \A s \in Streams : Len(pipe'[s]) >= Len(pipe[s])]_vars
C8_Witness == res.op = "bytes" /\ ~res.open0 /\ Raised("ShellCommandException") /\ _output # <<>>

\* C9: when an iteration begun on an open instance is over and str() of the
\* instance returns a text, the iteration ended by exhaustion and the items
\* it yielded, concatenated, are that text.
RECURSIVE Flat(_)
Flat(ss) == IF ss = <<>> THEN <<>> ELSE Head(ss) \o Flat(Tail(ss))
C9_IterationEqualsText ==
  (/\ it.st = "done" /\ it.open0 /\ res.op = "next" /\ ~Raised("ValueError")
   /\ ~ClaimFailing(returncode[1]) /\ Decode(_output).ok)
    => res.kind = "stop" /\ Flat(yielded) = Decode(_output).text

\* C10: every item yielded by the iteration of an open instance is exactly
\* one complete line: it ends with the line terminator and holds no other.
OneLine(t) == Len(t) > 0 /\ t[Len(t)] = 10 /\ \A j \in 1..(Len(t) - 1) : t[j] # 10
C10_ItemsAreLines == it.open0 => \A i \in 1..Len(yielded) : OneLine(yielded[i])

\* C11: an iteration of the closed instance reads nothing from the pipes,
\* ends by exhaustion and has yielded the same sequence of items (content,
\* line terminators, order) as the iteration that ran to its end while the
\* instance was open.
C11_Replayed == it.st = "done" /\ ~it.open0 /\ res.op = "next" /\ exhausted # <<>>
C11_ReplayEqualsOpenIteration ==
  [][/\ (_closed /\ pc = Idle /\ it.st \in {"fresh", "replay"} /\ it' # it) => pipe' = pipe
     /\ C11_Replayed' => (res'.kind = "stop" /\ yielded' = exhausted'[1])]_vars

\* C12: the full-stderr text of a raised ShellCommandException is the decoded
\* sequence of every byte the child wrote to stderr, whichever call raised it.
C12_ErrorIsAllOfStderr ==
  Raised("ShellCommandException") => res.exc.error = Decode(written["stderr"]).text

\* C13: a ShellCommandException keeps the stderr text unchanged as its full
\* text, and its short message is that text with the newlines flattened; for
\* stderr "boom\n" the short message is "boom" and the full text "boom\n".
C13_ShortMessage ==
  fn = "ShellCommandException"
    => /\ ret.exc.error = arg
       /\ Len(ret.exc.short) <= Len(arg) /\ \A i \in 1..Len(ret.exc.short) : ret.exc.short[i] # 10
       /\ arg = Boom => ret.exc.short = <<98, 111, 111, 109>> /\ ret.exc.error = Boom

\* C14: a terminate() step drains nothing, closes nothing and does not
\* collect the exit status: the closed flag, the pipe files, both buffers,
\* the bytes in the pipes and the exit status are as before it.
C14_TerminateOnlySignals ==
  [][terminate => UNCHANGED <<_closed, fclosed, _output, _error, pipe, returncode>>]_vars
\* C14, amended: as above, but the exit status of a child that had already
\* exited is recorded (and then no signal is sent).
C14_TerminateKeepsOpen ==
  [][terminate => /\ UNCHANGED <<_closed, fclosed, _output, _error, pipe>>
                  /\ returncode' # returncode
                       => /\ cstate = "exited" /\ returncode' = <<exitStatus>>
                          /\ UNCHANGED <<cstate, exitStatus>>]_vars
C14_Witness == cstate = "exited" /\ exitStatus = -15 /\ ~_closed /\ returncode = <<>> /\ pipe["stdout"] # <<>>

\* C15: the launch never waits for the child to consume its input: it is
\* never blocked writing _input to a full stdin pipe of a running child, and
\* it never fails because the child exited before reading.
C15_LaunchNeverWaits ==
  /\ ~(lpc = "write" /\ inleft > 0 /\ inpipe = PipeCap /\ process.state = "run")
  /\ lpc # "raised"

\* The flag of each key, what a value attached to it looks like, and the
\* elements of the positional arguments, written out.
Flag(key) ==
  CASE key = <<"v">> -> <<"-", "v">>
    [] key = <<"t", "a", "g">> -> <<"-", "-", "t", "a", "g">>
    [] key = <<"n", "o", "_", "x">> -> <<"-", "-", "n", "o", "-", "x">>
Attached(key, str) == IF Len(key) = 1 THEN Flag(key) \o str ELSE Flag(key) \o <<"=">> \o str
Rest == IF call.args = <<>> THEN <<>> ELSE <<<<"x">>>>
Built == fn = "command"

\* C16: an option whose value is true gives the flag alone; an option whose
\* value is false, or a list holding only false and None elements, gives
\* nothing, as when the option is absent.
C16_BooleanOptions ==
  (Built /\ Len(call.kwargs) = 1)
    => LET key == call.kwargs[1].key
           v == call.kwargs[1].v
       IN /\ v = True => ret.command = <<CommandName, Flag(key)>> \o Rest
          /\ v = False => ret.command = <<CommandName>> \o Rest
          /\ (v.t = "list" /\ \A i \in 1..Len(v.items) : v.items[i] \in {False, None})
               => ret.command = <<CommandName>> \o Rest

\* C17: when every option is a non-boolean scalar, the argv is the command
\* name, then one element per option, the flag ('_' as '-', one '-' for a
\* one-character key and two otherwise) with the value attached directly
\* (-kVALUE) or after '=' (--key=VALUE), then the positional arguments.
C17_ScalarOptions ==
  (Built /\ \A i \in 1..Len(call.kwargs) : call.kwargs[i].v.t \in {"str", "int"})
    => ret.command = <<CommandName>>
                       \o [i \in 1..Len(call.kwargs) |-> Attached(call.kwargs[i].key, call.kwargs[i].v.s)]
                       \o Rest
C17_Witness ==
  /\ Built /\ call.kwargs = <<[key |-> <<"n", "o", "_", "x">>, v |-> Scalar("int", <<"5">>)],
                              [key |-> <<"v">>, v |-> Scalar("str", <<"a">>)]>>
  /\ ret.command = <<CommandName, <<"-", "-", "n", "o", "-", "x", "=", "5">>, <<"-", "v", "a">>>> \o Rest

\* C18: for a list-valued option, the elements of the argv that begin with
\* its flag are as many as the non-None elements of the list, stand next to
\* one another, and the k-th carries the k-th non-None element.
C18_ListOptions ==
  Built => \A i \in 1..Len(call.kwargs) :
    call.kwargs[i].v.t = "list" =>
      LET key == call.kwargs[i].key
          flagged(j) == /\ Len(ret.command[j]) >= Len(Flag(key))
                        /\ SubSeq(ret.command[j], 1, Len(Flag(key))) = Flag(key)
          at == SelectSeq(Indices(ret.command), flagged)
          given(value) == value.t # "none"
          kept == SelectSeq(call.kwargs[i].v.items, given)
      IN /\ Len(at) = Len(kept)
         /\ \A k \in 1..Len(at) :
              /\ k > 1 => at[k] = at[k - 1] + 1
              /\ kept[k].t # "bool" => ret.command[at[k]] = Attached(key, kept[k].s)
C18_Witness ==
  /\ Built /\ call.kwargs = <<[key |-> <<"t", "a", "g">>,
                               v |-> List(<<Scalar("str", <<"a">>), Scalar("str", <<"b">>)>>)]>>
  /\ ret.command = <<CommandName, <<"-", "-", "t", "a", "g", "=", "a">>, <<"-", "-", "t", "a", "g", "=", "b">>>> \o Rest

\* C19: a child launched by a call without a working-directory argument runs
\* in the directory that was the caller's current one when it made the call.
C19_DefaultWorkingDirectory ==
  (process.state # "" /\ lpc # "loaded" /\ call._cwd = <<>>) => process.cwd = cwd

\* C20: parse() gives the empty marker when the text has no token, the one
\* value when one line has tokens and otherwise the values of the lines
\* that have tokens, in order; a line with one token gives a scalar and a
\* line with more gives a row of as many scalars; a token is an integer if
\* it reads as one, else a float if it reads as one, else text.  The text
\* "1 2\n3\nfoo bar\n" gives [[1, 2], 3, ["foo", "bar"]] and "" the marker.
Blank(c) == c \in {10, 32}
\* positions where a token starts, and where the first token of a line starts
TokenStarts == {i \in 1..Len(arg) : ~Blank(arg[i]) /\ (i = 1 \/ Blank(arg[i - 1]))}
LineStarts == {i \in TokenStarts : \A j \in 1..(i - 1) : (\A k \in j..(i - 1) : arg[k] # 10) => arg[j] = 32}
RECURSIVE Total(_)
Total(rows) == IF rows = <<>> THEN 0 ELSE Len(Head(rows).items) + Total(Tail(rows))
IntValue(n) == [t |-> "int", n |-> n, e |-> 0, s |-> <<>>]
TextValue(str) == [t |-> "str", n |-> 0, e |-> 0, s |-> str]
\* how a token over "-", ".", "1", "a" reads
Reads(tok) ==
  LET body == IF tok[1] = 45 THEN Tail(tok) ELSE tok
      ones == {i \in 1..Len(body) : body[i] = 49}
      dots == {i \in 1..Len(body) : body[i] = 46}
  IN IF ones # {} /\ Cardinality(ones) = Len(body) THEN "int"
     ELSE IF ones # {} /\ Cardinality(dots) = 1 /\ Cardinality(ones) + 1 = Len(body) THEN "float"
     ELSE "str"
C20_Parse ==
  fn = "parse"
    => LET p == ret.parsed IN
       /\ p.kind = "empty" <=> TokenStarts = {}
       /\ p.kind = "one" <=> Cardinality(LineStarts) = 1
       /\ p.kind = "list" <=> Cardinality(LineStarts) > 1
       /\ Len(p.items) = Cardinality(LineStarts)
       /\ Total(p.items) = Cardinality(TokenStarts)
       /\ \A k \in 1..Len(p.items) : p.items[k].row <=> Len(p.items[k].items) > 1
       /\ (arg \notin {Boom, Rows} /\ Cardinality(TokenStarts) = 1)
            => \E i \in TokenStarts : \E j \in i..Len(arg) :
                 /\ \A k \in i..j : ~Blank(arg[k])
                 /\ j = Len(arg) \/ Blank(arg[j + 1])
                 /\ p.items[1].items[1].t = Reads(SubSeq(arg, i, j))
                 /\ Reads(SubSeq(arg, i, j)) = "str" => p.items[1].items[1] = TextValue(SubSeq(arg, i, j))
       /\ arg = <<49, 49>> => p.items[1].items[1] = IntValue(11)
       /\ arg = <<45, 49>> => p.items[1].items[1] = IntValue(-1)
       /\ arg = <<49, 46, 49>> => p.items[1].items[1] = [t |-> "float", n |-> 11, e |-> -1, s |-> <<>>]
       /\ arg = Rows => p = [kind |-> "list",
                             items |-> <<[row |-> TRUE, items |-> <<IntValue(1), IntValue(2)>>],
                                         [row |-> FALSE, items |-> <<IntValue(3)>>],
                                         [row |-> TRUE, items |-> <<TextValue(<<102, 111, 111>>),
                                                                   TextValue(<<98, 97, 114>>)>>]>>]
       /\ arg = <<>> => p = [kind |-> "empty", items |-> <<>>]
C20_Witness == fn = "parse" /\ arg = Rows /\ ret.parsed.kind = "list" /\ Len(ret.parsed.items) = 3

\* C21: in every reachable state the captured stdout buffer is a prefix of
\* the bytes the child has written to stdout so far, and the captured stderr
\* buffer is a prefix of the bytes it has written to stderr: bytes are
\* appended in the order produced, none reordered, duplicated or dropped.
IsPrefix(a, b) == Len(a) <= Len(b) /\ a = SubSeq(b, 1, Len(a))
C21_BuffersArePrefixes ==
  /\ IsPrefix(_output, written["stdout"])
  /\ IsPrefix(_error, written["stderr"])
\* One round has read the first 255 bytes of the long line and "7\n" of
\* stderr; the last two bytes of the line are still in the pipe.
C21_Witness ==
  /\ _output = Take(LongBlob, ChunkSize) /\ written["stdout"] = LongBlob
  /\ _error = ShortBlob /\ written["stderr"] = ShortBlob

\* C22: in each round of the multiplex loop a read is issued only on the
\* streams the readiness wait reported ready, each read returns at most 255
\* bytes, and each chunk is appended to the buffer of the stream it came
\* from, so the consumer never sits in a read on a stream without data.  A
\* round is a step of a call in a loop phase, both files open, that moves the
\* call on or takes bytes out of a pipe.
RoundStep ==
  /\ pc.phase \in {"ro", "bw", "cw", "ce", "loop"}
  /\ \A s \in Streams : ~fclosed[s]
  /\ written' = written
  /\ pc' # pc \/ pipe' # pipe
C22_ReadsOnlyReady ==
  [][RoundStep =>
       /\ \A s \in available : pipe[s] # <<>> \/ ~wopen[s]
       /\ \A s \in Streams :
            LET k == Len(pipe[s]) - Len(pipe'[s]) IN
              /\ k >= 0 /\ k <= 255
              /\ k > 0 => s \in available
              /\ pipe'[s] = Drop(pipe[s], k)
       /\ _output' = _output \o Take(pipe["stdout"], Len(pipe["stdout"]) - Len(pipe'["stdout"]))
       /\ _error' = _error \o Take(pipe["stderr"], Len(pipe["stderr"]) - Len(pipe'["stderr"]))]_vars
\* A round has read 255 bytes of stdout while stderr, open and empty, was
\* not ready and was left alone.
C22_Witness ==
  /\ pc.phase \in {"ro", "bw", "cw", "ce", "loop"}
  /\ Len(_output) = 255 /\ Len(pipe["stdout"]) = 2
  /\ wopen["stderr"] /\ written["stderr"] = <<>> /\ _error = <<>>

\* C23: once print() has returned or raised, the text it wrote to standard
\* output is the command's full captured stdout, in order and with its line
\* terminators, whether the instance was open or already closed at the
\* call; the instance is closed, and a failing exit code has raised
\* ShellCommandException.
C23_PrintWritesCapturedStdout ==
  Done({"print"}) =>
    /\ Decode(_output).ok /\ res.out = Decode(_output).text
    /\ _closed
    /\ (returncode # <<>> /\ ClaimFailing(returncode[1])) => Raised("ShellCommandException")
====
